---- MODULE Spec2Model ----
(***************************************************************************)
(* Model of the retrieval-augmented context subsystem of spitchagent:      *)
(*   src/vector_search.py  RAGService (indexing, search, context builder)  *)
(*   src/spitchagent.py    SalesAgent / SalesAgentService (voice session)  *)
(*                                                                         *)
(* Strings are sequences of characters.  A similarity score is an integer  *)
(* number of ten-thousandths (8766 stands for 0.8766); a score rounded to  *)
(* 3 decimals is an integer number of thousandths.                         *)
(***************************************************************************)
EXTENDS Integers, Sequences, FiniteSets, TLC

\* ------------------------------------------------------------------ bounds
MaxTextLen == 3
MaxChunkSize == 3
MaxChunkDocs == 1
MaxDocs == 2
MaxLimit == 2
MaxTurns == 2
MaxSessionDocs == 1

Users == {"u1", "u2"}
Callers == {"c1", "c2"}
Alphabet == {"a", "b"}
Filenames == {"doc.txt"}

\* "ABCDEFGHIJ", the text of the worked indexing scenario
ABCDEFGHIJ == <<"A", "B", "C", "D", "E", "F", "G", "H", "I", "J">>

None == "None"

\* max_chunks of the fetches the agent makes: the baseline's and a turn's
BaselineMaxChunks == 15
TurnMaxChunks == 5

VARIABLES
  doc_seq,          \* the store's id sequence: the last document id it assigned
  documents,        \* table "documents": set of rows {id, user_id, filename}
  document_chunks,  \* table "document_chunks": rows in storage (insertion) order
  call,             \* per caller: the embed_and_store_document call in progress
  lastCall,         \* the last search / get_context call and what it returned
  agent,            \* the SalesAgent built by start_session (None before)
  sess,             \* start_session: position, AgentSession, handler, teardown
  ready,            \* the event loop's FIFO queue of spawned process_speech tasks
  tasks,            \* per committed utterance: its process_speech task
  replies           \* the generate_reply calls issued on the session, in order

vars == <<doc_seq, documents, document_chunks, call, lastCall, agent, sess, ready, tasks, replies>>

storeVars == <<doc_seq, documents, document_chunks>>
sessionVars == <<agent, sess, ready, tasks, replies>>

\* ----------------------------------------------------------------- helpers
Min(a, b) == IF a <= b THEN a ELSE b
Max(a, b) == IF a >= b THEN a ELSE b
Abs(a) == IF a >= 0 THEN a ELSE -a

\* All strings over Alphabet of length at most n
StringsUpTo(n) == UNION {[1..k -> Alphabet] : k \in 0..n}

\* Python's text[i : j] for 0 <= i <= j (0-based, end exclusive, clipped to len)
Slice(text, i, j) == SubSeq(text, i + 1, Min(j, Len(text)))

\* Python's range(start, stop, step) for step >= 1, as a sequence
RECURSIVE Range(_, _, _)
Range(start, stop, step) ==
  IF start >= stop THEN <<>> ELSE <<start>> \o Range(start + step, stop, step)

\* ---------------------------------------------------------------- embedder
CharCode(c) == IF c = "a" THEN 1 ELSE IF c = "b" THEN 2 ELSE 3

\* model.encode(text): a fixed, deterministic function of the text
RECURSIVE Encode(_)
Encode(text) == IF text = <<>> THEN 0 ELSE CharCode(Head(text)) + Encode(Tail(text))

\* model.encode(chunks): one vector per chunk, in order
EncodeBatch(chunks) == [i \in 1..Len(chunks) |-> Encode(chunks[i])]

\* ------------------------------------------------------------------ chunker
\* a variant whose range stops one short: range(0, len(text) - 1, chunk_size)
ChunksShort(text, chunk_size) ==
  LET starts == Range(0, Len(text) - 1, chunk_size)
  IN  [k \in 1..Len(starts) |-> Slice(text, starts[k], starts[k] + chunk_size)]

\* chunks = [text[i : i + chunk_size] for i in range(0, len(text), chunk_size)]
Chunks(text, chunk_size) ==
  LET starts == Range(0, Len(text), chunk_size)
  IN  [k \in 1..Len(starts) |-> Slice(text, starts[k], starts[k] + chunk_size)]

\* zip(chunks, embeddings): pairs, as long as the shorter of the two
Zip(xs, ys) == [k \in 1..Min(Len(xs), Len(ys)) |-> <<xs[k], ys[k]>>]

\* a variant that stamps every row with one fixed user instead of the caller's
RowsWrongOwner(doc_id, user_id, chunks, embeddings) ==
  LET pairs == Zip(chunks, embeddings)
  IN  [k \in 1..Len(pairs) |->
        [document_id |-> doc_id, user_id |-> CHOOSE u \in Users : TRUE,
         chunk_index |-> k - 1,
         chunk_text |-> pairs[k][1], embedding |-> pairs[k][2]]]

\* rows built by the loop over enumerate(zip(chunks, embeddings))
Rows(doc_id, user_id, chunks, embeddings) ==
  LET pairs == Zip(chunks, embeddings)
  IN  [k \in 1..Len(pairs) |->
        [document_id |-> doc_id, user_id |-> user_id, chunk_index |-> k - 1,
         chunk_text |-> pairs[k][1], embedding |-> pairs[k][2]]]

\* -------------------------------------------------------------------- store
\* supabase.table("documents").insert({...}).execute().data[0]: the new row,
\* with the id the store assigns
create_document(id, user_id, filename) ==
  [id |-> id, user_id |-> user_id, filename |-> filename]

\* supabase.table("document_chunks").insert(rows).execute(): one request, one
\* atomic batch write; the rows of a document that no longer exists are refused
insert_chunks(table, rows) == table \o rows

DocExists(docs, id) == \E d \in docs : d.id = id

\* explicit external deletion of a document, with its chunks
delete_chunks(table, id) == SelectSeq(table, LAMBDA r : r.document_id # id)

\* similarity of a query vector and a chunk vector, in ten-thousandths
Similarity(q, e) == Max(10000 - 1234 * Abs(q - e), -10000)

\* rpc search_document_chunks: the match_count most similar chunks among those
\* whose user_id is user_id_param, most similar first, ties in storage order
Candidates(table, query_embedding, user_id_param) ==
  LET own == SelectSeq(table, LAMBDA r : r.user_id = user_id_param)
  IN  [k \in 1..Len(own) |->
        [document_id |-> own[k].document_id, chunk_index |-> own[k].chunk_index,
         chunk_text |-> own[k].chunk_text,
         similarity |-> Similarity(query_embedding, own[k].embedding)]]

\* index of the first row of highest similarity
Best(rows) ==
  CHOOSE i \in 1..Len(rows) :
    /\ \A j \in 1..Len(rows) : rows[j].similarity <= rows[i].similarity
    /\ \A j \in 1..(i - 1) : rows[j].similarity < rows[i].similarity

Without(rows, i) == SubSeq(rows, 1, i - 1) \o SubSeq(rows, i + 1, Len(rows))

RECURSIVE TopK(_, _)
TopK(rows, k) ==
  IF k <= 0 \/ rows = <<>> THEN <<>>
  ELSE LET i == Best(rows) IN <<rows[i]>> \o TopK(Without(rows, i), k - 1)

search_document_chunks(table, query_embedding, match_count, user_id_param) ==
  TopK(Candidates(table, query_embedding, user_id_param), match_count)

\* --------------------------------------------------------------- RAGService
\* response.data or []: the rpc's rows, or the empty list when it gave none
OrEmpty(data) == IF Len(data) = 0 THEN <<>> ELSE data

\* a variant that passes one fixed user as user_id_param
searchIgnoringUser(table, query, user_id, limit) ==
  OrEmpty(search_document_chunks(table, Encode(query), limit,
                                 CHOOSE u \in Users : TRUE))

\* a variant that passes the default limit, 5, as match_count
searchDefaultLimit(table, query, user_id, limit) ==
  OrEmpty(search_document_chunks(table, Encode(query), 5, user_id))

\* RAGService.search, when neither the embedder nor the store raises
search(table, query, user_id, limit) ==
  OrEmpty(search_document_chunks(table, Encode(query), limit, user_id))

\* round(x, 3): to the nearest thousandth, a tie to the even one
Round3(s) ==
  LET q == s \div 10
      r == s % 10
  IN  IF r < 5 THEN q
      ELSE IF r > 5 THEN q + 1
      ELSE IF q % 2 = 0 THEN q ELSE q + 1

\* A formatted string is the sequence of its pieces: literals, texts, numbers.
\* f"[Chunk]\n{c['chunk_text']} (score={round(c['similarity'],3)})"
Part(c) == <<"[Chunk]", c.chunk_text, "(score=", Round3(c.similarity), ")">>

Separator == "---"

\* sep.join(parts)
RECURSIVE Join(_, _)
Join(sep, parts) ==
  IF parts = <<>> THEN <<>>
  ELSE IF Len(parts) = 1 THEN parts[1]
  ELSE parts[1] \o <<sep>> \o Join(sep, Tail(parts))

\* a variant that formats the results last to first
ContextOfReversed(chunks) ==
  IF chunks = <<>> THEN <<>>
  ELSE Join(Separator, [k \in 1..Len(chunks) |-> Part(chunks[Len(chunks) + 1 - k])])

\* RAGService.get_context, given what search returned
ContextOf(chunks) ==
  IF chunks = <<>> THEN <<>>
  ELSE Join(Separator, [k \in 1..Len(chunks) |-> Part(chunks[k])])

get_context(table, query, user_id, max_chunks) ==
  ContextOf(search(table, query, user_id, max_chunks))

\* ----------------------------------------------- embed_and_store_document
NoResult == [document_id |-> 0, chunks |-> 0]

IdleCall ==
  [pc |-> "idle", user_id |-> None, filename |-> None, text |-> <<>>,
   chunk_size |-> 0, doc_id |-> 0, rows |-> <<>>, error |-> None,
   result |-> NoResult]

\* lines 18-22: create the document entry; the store may refuse
InsertDocument(p, user_id, filename, text, chunk_size, ok) ==
  /\ call[p].pc \in {"idle", "returned", "raised"}
  /\ IF ok
     THEN /\ doc_seq' = doc_seq + 1
          /\ documents' = documents \cup {create_document(doc_seq + 1, user_id, filename)}
          /\ call' = [call EXCEPT ![p] =
                [pc |-> "doc_created", user_id |-> user_id, filename |-> filename,
                 text |-> text, chunk_size |-> chunk_size, doc_id |-> doc_seq + 1,
                 rows |-> <<>>, error |-> None, result |-> NoResult]]
     ELSE /\ call' = [call EXCEPT ![p] =
                [pc |-> "raised", user_id |-> user_id, filename |-> filename,
                 text |-> text, chunk_size |-> chunk_size, doc_id |-> 0,
                 rows |-> <<>>, error |-> "StorageFailure", result |-> NoResult]]
          /\ UNCHANGED <<doc_seq, documents>>
  /\ UNCHANGED <<document_chunks, lastCall, sessionVars>>

\* lines 24-38: chunk, embed all chunks in one call, build the rows; the
\* embedder may raise
EmbedChunks(p, ok) ==
  /\ call[p].pc = "doc_created"
  /\ IF ok
     THEN LET chunks == Chunks(call[p].text, call[p].chunk_size)
              embeddings == EncodeBatch(chunks)
          IN  call' = [call EXCEPT ![p].pc = "rows_built",
                         ![p].rows = Rows(call[p].doc_id, call[p].user_id,
                                          chunks, embeddings)]
     ELSE call' = [call EXCEPT ![p].pc = "raised", ![p].error = "EmbeddingFailure"]
  /\ UNCHANGED <<storeVars, lastCall, sessionVars>>

\* a variant that writes the rows one request at a time
StoreChunksRowByRow(p, ok) ==
  /\ call[p].pc = "rows_built"
  /\ IF ok /\ DocExists(documents, call[p].doc_id)
     THEN IF call[p].rows = <<>>
          THEN /\ call' = [call EXCEPT ![p].pc = "returned",
                            ![p].result = [document_id |-> call[p].doc_id, chunks |-> 0]]
               /\ UNCHANGED document_chunks
          ELSE /\ document_chunks' = insert_chunks(document_chunks, <<Head(call[p].rows)>>)
               /\ call' = [call EXCEPT ![p].rows = Tail(call[p].rows)]
     ELSE /\ call' = [call EXCEPT ![p].pc = "raised", ![p].error = "StorageFailure"]
          /\ UNCHANGED document_chunks
  /\ UNCHANGED <<doc_seq, documents, lastCall, sessionVars>>

\* lines 40-42: store all rows in one insert and return; the store may refuse
StoreChunks(p, ok) ==
  /\ call[p].pc = "rows_built"
  /\ IF ok /\ DocExists(documents, call[p].doc_id)
     THEN /\ document_chunks' = insert_chunks(document_chunks, call[p].rows)
          /\ call' = [call EXCEPT ![p].pc = "returned",
                       ![p].result = [document_id |-> call[p].doc_id,
                                      chunks |-> Len(call[p].rows)]]
     ELSE /\ call' = [call EXCEPT ![p].pc = "raised", ![p].error = "StorageFailure"]
          /\ UNCHANGED document_chunks
  /\ UNCHANGED <<doc_seq, documents, lastCall, sessionVars>>

\* ------------------------------------------------- search and get_context
NoCall ==
  [op |-> "none", query |-> <<>>, user_id |-> None, limit |-> 0,
   status |-> None, results |-> <<>>, context |-> <<>>]

\* RAGService.search: encode the query, call the rpc, return its rows
Search(query, user_id, limit, outcome) ==
  /\ lastCall' =
       [op |-> "search", query |-> query, user_id |-> user_id, limit |-> limit,
        status |-> outcome,
        results |-> IF outcome = "ok"
                    THEN search(document_chunks, query, user_id, limit) ELSE <<>>,
        context |-> <<>>]
  /\ UNCHANGED <<storeVars, call, sessionVars>>

\* RAGService.get_context: search, then format; a failure of search propagates
GetContext(query, user_id, max_chunks, outcome) ==
  /\ lastCall' =
       [op |-> "get_context", query |-> query, user_id |-> user_id,
        limit |-> max_chunks, status |-> outcome,
        results |-> IF outcome = "ok"
                    THEN search(document_chunks, query, user_id, max_chunks) ELSE <<>>,
        context |-> IF outcome = "ok"
                    THEN get_context(document_chunks, query, user_id, max_chunks)
                    ELSE <<>>]
  /\ UNCHANGED <<storeVars, call, sessionVars>>

Outcomes == {"ok", "EmbeddingFailure", "StorageFailure"}

\* --------------------------------------------------------------- SalesAgent
CompanyOverview == <<"C", "o">>    \* the query "Company overview", abridged

NoAgent == [built |-> FALSE, user_id |-> None, business_context |-> <<>>]

\* a variant that accepts the empty context
load_business_context_lenient(context) ==
  [raised |-> FALSE, context |-> context]

\* SalesAgent._load_business_context, given the context get_context returned:
\* raises ValueError when it is empty
load_business_context(context) ==
  IF context = <<>>
  THEN [raised |-> TRUE, context |-> <<>>]
  ELSE [raised |-> FALSE, context |-> context]

\* a variant that fetches the business context again on every turn
get_context_instructions_refetch(table, user_id, business_context, query) ==
  LET specific_context == get_context(table, query, user_id, TurnMaxChunks)
      refetched == get_context(table, CompanyOverview, user_id, BaselineMaxChunks)
  IN  IF specific_context # <<>>
      THEN [template |-> "specific", said |-> query,
            relevant |-> specific_context, business |-> refetched]
      ELSE [template |-> "fallback", said |-> query,
            relevant |-> <<>>, business |-> refetched]

\* SalesAgent.get_context_instructions: the f-string's variable parts, and
\* which of its two templates was used
get_context_instructions(table, user_id, business_context, query) ==
  LET specific_context == get_context(table, query, user_id, TurnMaxChunks)
  IN  IF specific_context # <<>>
      THEN [template |-> "specific", said |-> query,
            relevant |-> specific_context, business |-> business_context]
      ELSE [template |-> "fallback", said |-> query,
            relevant |-> <<>>, business |-> business_context]

\* _send_opening: the opening pitch quotes the script, not the store
OpeningInstructions ==
  [template |-> "opening", said |-> <<>>, relevant |-> <<>>, business |-> <<>>]

\* -------------------------------------------------------- SalesAgentService
NoSession ==
  [pc |-> "idle", user_id |-> None, created |-> FALSE, handler |-> FALSE,
   ended |-> FALSE, error |-> None, baseline |-> <<>>]

\* entrypoint, up to the call of start_session: userId is required
Entrypoint(userId) ==
  /\ sess.pc = "idle"
  /\ IF userId = None
     THEN sess' = [sess EXCEPT !.pc = "failed", !.error = "userId required"]
     ELSE sess' = [sess EXCEPT !.pc = "connected", !.user_id = userId]
  /\ UNCHANGED <<storeVars, call, lastCall, agent, ready, tasks, replies>>

\* start_session up to its first await: build the SalesAgent (which fetches
\* the baseline once), create the AgentSession, register on_speech, and call
\* session.start.  A failure of the fetch, or an empty baseline, raises.
StartSession(outcome) ==
  /\ sess.pc = "connected"
  /\ LET loaded == load_business_context(
                     get_context(document_chunks, CompanyOverview, sess.user_id,
                                 BaselineMaxChunks))
     IN  IF outcome # "ok"
         THEN /\ sess' = [sess EXCEPT !.pc = "failed", !.error = outcome]
              /\ UNCHANGED agent
         ELSE IF loaded.raised
         THEN /\ sess' = [sess EXCEPT !.pc = "failed", !.error = "ValueError"]
              /\ UNCHANGED agent
         ELSE /\ agent' = [built |-> TRUE, user_id |-> sess.user_id,
                           business_context |-> loaded.context]
              /\ sess' = [sess EXCEPT !.pc = "starting", !.created = TRUE,
                                      !.handler = TRUE,
                                      !.baseline = loaded.context]
  /\ UNCHANGED <<storeVars, call, lastCall, ready, tasks, replies>>

\* session.start returns and _send_opening issues the opening reply
SendOpening ==
  /\ sess.pc = "starting"
  /\ replies' = Append(replies, [turn |-> 0, instructions |-> OpeningInstructions,
                                 afterEnd |-> sess.ended])
  /\ sess' = [sess EXCEPT !.pc = "opening"]
  /\ UNCHANGED <<storeVars, call, lastCall, agent, ready, tasks>>

\* the opening reply completes, start_session returns the session, and
\* entrypoint waits for the participant
ReturnSession ==
  /\ sess.pc = "opening"
  /\ sess' = [sess EXCEPT !.pc = "returned"]
  /\ UNCHANGED <<storeVars, call, lastCall, agent, ready, tasks, replies>>

\* session.start has completed: the session takes part in the room
SessionRunning == sess.pc \in {"opening", "returned"}

\* on_speech: a committed utterance spawns one process_speech task, which
\* the event loop queues behind the tasks spawned before it
UserSpeechCommit(message, alternatives) ==
  /\ SessionRunning
  /\ sess.handler
  /\ ~sess.ended
  /\ tasks' = Append(tasks, [message |-> message, alternatives |-> alternatives,
                             pending |-> Len(ready), pc |-> "ready",
                             step |-> 0, error |-> None, afterEnd |-> FALSE])
  /\ ready' = Append(ready, Len(tasks) + 1)
  /\ UNCHANGED <<storeVars, call, lastCall, agent, sess, replies>>

Steps == Cardinality({t \in 1..Len(tasks) : tasks[t].step > 0})

\* a variant whose retrieval is awaited off the event loop, so that the
\* spawned tasks reach generate_reply in any order
ProcessSpeechOffloaded(t, outcome) ==
  /\ \E i \in 1..Len(ready) : ready[i] = t
  /\ ready' = SelectSeq(ready, LAMBDA x : x # t)
  /\ IF ~tasks[t].alternatives
     THEN /\ tasks' = [tasks EXCEPT ![t].pc = "done", ![t].step = Steps + 1,
                                    ![t].afterEnd = sess.ended]
          /\ UNCHANGED replies
     ELSE IF outcome # "ok"
     THEN /\ tasks' = [tasks EXCEPT ![t].pc = "raised", ![t].step = Steps + 1,
                                    ![t].error = outcome,
                                    ![t].afterEnd = sess.ended]
          /\ UNCHANGED replies
     ELSE /\ tasks' = [tasks EXCEPT ![t].pc = "awaiting_reply",
                                    ![t].step = Steps + 1,
                                    ![t].afterEnd = sess.ended]
          /\ replies' = Append(replies,
               [turn |-> t,
                instructions |-> get_context_instructions(document_chunks,
                   agent.user_id, agent.business_context, tasks[t].message),
                afterEnd |-> sess.ended])
  /\ UNCHANGED <<storeVars, call, lastCall, agent, sess>>

\* process_speech up to its await: the event loop runs the oldest spawned
\* task; with alternatives, it retrieves (blocking the loop) and then issues
\* generate_reply; an exception of the retrieval ends the task
ProcessSpeech(t, outcome) ==
  /\ ready # <<>>
  /\ t = Head(ready)
  /\ ready' = Tail(ready)
  /\ IF ~tasks[t].alternatives
     THEN /\ tasks' = [tasks EXCEPT ![t].pc = "done", ![t].step = Steps + 1,
                                    ![t].afterEnd = sess.ended]
          /\ UNCHANGED replies
     ELSE IF outcome # "ok"
     THEN /\ tasks' = [tasks EXCEPT ![t].pc = "raised", ![t].step = Steps + 1,
                                    ![t].error = outcome,
                                    ![t].afterEnd = sess.ended]
          /\ UNCHANGED replies
     ELSE /\ tasks' = [tasks EXCEPT ![t].pc = "awaiting_reply",
                                    ![t].step = Steps + 1,
                                    ![t].afterEnd = sess.ended]
          /\ replies' = Append(replies,
               [turn |-> t,
                instructions |-> get_context_instructions(document_chunks,
                   agent.user_id, agent.business_context, tasks[t].message),
                afterEnd |-> sess.ended])
  /\ UNCHANGED <<storeVars, call, lastCall, agent, sess>>

\* await session.generate_reply(...) completes and the task ends
ReplyDone(t) ==
  /\ t \in 1..Len(tasks)
  /\ tasks[t].pc = "awaiting_reply"
  /\ tasks' = [tasks EXCEPT ![t].pc = "done"]
  /\ UNCHANGED <<storeVars, call, lastCall, agent, sess, ready, replies>>

\* the participant disconnects: the session ends; nothing in start_session or
\* entrypoint tracks the spawned tasks
Disconnect ==
  /\ SessionRunning
  /\ ~sess.ended
  /\ sess' = [sess EXCEPT !.ended = TRUE]
  /\ UNCHANGED <<storeVars, call, lastCall, agent, ready, tasks, replies>>

\* explicit external deletion of a document and its chunks
DeleteDocument(id) ==
  /\ DocExists(documents, id)
  /\ documents' = {d \in documents : d.id # id}
  /\ document_chunks' = delete_chunks(document_chunks, id)
  /\ UNCHANGED <<doc_seq, call, lastCall, sessionVars>>

\* ------------------------------------------------- the retrieval service
\* One uploader indexes documents while searches run.
StoreTexts == {<<>>, <<"a", "b">>}
ChunkSizes == {1, 2}
Queries == {<<"a">>, <<"b", "b">>}
Uploader == {"c1"}

InitStore ==
  /\ doc_seq = 0
  /\ documents = {}
  /\ document_chunks = <<>>
  /\ call = [p \in Callers |-> IdleCall]
  /\ lastCall = NoCall

InitSession ==
  /\ agent = NoAgent
  /\ sess = NoSession
  /\ ready = <<>>
  /\ tasks = <<>>
  /\ replies = <<>>

Init == InitStore /\ InitSession

Next ==
  \/ \E p \in Uploader, u \in Users, f \in Filenames, t \in StoreTexts,
        cs \in ChunkSizes, ok \in BOOLEAN :
       doc_seq < MaxDocs /\ InsertDocument(p, u, f, t, cs, ok)
  \/ \E p \in Uploader, ok \in BOOLEAN : EmbedChunks(p, ok)
  \/ \E p \in Uploader, ok \in BOOLEAN : StoreChunks(p, ok)
  \/ \E q \in Queries, u \in Users, l \in (-1)..MaxLimit, o \in Outcomes :
       Search(q, u, l, o)

Spec == Init /\ [][Next]_vars

\* ------------------------------------------------- the context builder
\* One uploader indexes documents while context fetches run.
NextContext ==
  \/ \E p \in Uploader, u \in Users, f \in Filenames, t \in StoreTexts,
        cs \in ChunkSizes, ok \in BOOLEAN :
       doc_seq < MaxDocs /\ InsertDocument(p, u, f, t, cs, ok)
  \/ \E p \in Uploader, ok \in BOOLEAN : EmbedChunks(p, ok)
  \/ \E p \in Uploader, ok \in BOOLEAN : StoreChunks(p, ok)
  \/ \E q \in Queries, u \in Users, l \in (-1)..MaxLimit, o \in Outcomes :
       GetContext(q, u, l, o)

SpecContext == Init /\ [][NextContext]_vars

\* ------------------------------------------------------ the chunker alone
\* One uploader indexes, for one user, texts of every length up to MaxTextLen,
\* and the text of the worked scenario, with every chunk size up to
\* MaxChunkSize.
Texts == StringsUpTo(MaxTextLen) \cup {ABCDEFGHIJ}
ChunkUsers == {"u1"}

NextChunk ==
  \/ \E p \in Uploader, u \in ChunkUsers, f \in Filenames, t \in Texts,
        cs \in 1..MaxChunkSize, ok \in BOOLEAN :
       doc_seq < MaxChunkDocs /\ InsertDocument(p, u, f, t, cs, ok)
  \/ \E p \in Uploader, ok \in BOOLEAN : EmbedChunks(p, ok)
  \/ \E p \in Uploader, ok \in BOOLEAN : StoreChunks(p, ok)

SpecChunk == Init /\ [][NextChunk]_vars

\* ------------------------------------------------- concurrent indexing
\* Several uploaders index at once while a search with the baseline's
\* max_chunks observes the store.
NextIndex ==
  \/ \E p \in Callers, u \in Users, f \in Filenames, t \in StoreTexts,
        cs \in ChunkSizes, ok \in BOOLEAN :
       doc_seq < MaxDocs /\ InsertDocument(p, u, f, t, cs, ok)
  \/ \E p \in Callers, ok \in BOOLEAN : EmbedChunks(p, ok)
  \/ \E p \in Callers, ok \in BOOLEAN : StoreChunks(p, ok)
  \/ \E u \in Users : Search(<<"a">>, u, BaselineMaxChunks, "ok")

SpecIndex == Init /\ [][NextIndex]_vars

\* ------------------------------------------------------- the voice session
\* One uploader indexes documents (its calls succeed), documents may be
\* deleted, and one session is started for a user, takes utterances, and ends.
Messages == {<<"a">>}
SessionTexts == {<<"a", "b">>}
SessionChunkSizes == {1}

NextSession ==
  \/ \E p \in Uploader, u \in Users, f \in Filenames, t \in SessionTexts,
        cs \in SessionChunkSizes :
       doc_seq < MaxSessionDocs /\ InsertDocument(p, u, f, t, cs, TRUE)
  \/ \E p \in Uploader : EmbedChunks(p, TRUE)
  \/ \E p \in Uploader : StoreChunks(p, TRUE)
  \/ \E id \in 1..MaxSessionDocs : DeleteDocument(id)
  \/ \E u \in Users \cup {None} : Entrypoint(u)
  \/ \E o \in Outcomes : StartSession(o)
  \/ SendOpening
  \/ ReturnSession
  \/ \E m \in Messages, alt \in BOOLEAN :
       Len(tasks) < MaxTurns /\ UserSpeechCommit(m, alt)
  \/ \E t \in 1..MaxTurns, o \in Outcomes : ProcessSpeech(t, o)
  \/ \E t \in 1..MaxTurns : ReplyDone(t)
  \/ Disconnect

SpecSession == Init /\ [][NextSession]_vars

\* =================================================================== claims
\* the chunk rows of document d, in storage order
DocRows(d) == SelectSeq(document_chunks, LAMBDA r : r.document_id = d)

UserRows(u) == SelectSeq(document_chunks, LAMBDA r : r.user_id = u)

RECURSIVE Concat(_)
Concat(ss) == IF ss = <<>> THEN <<>> ELSE Head(ss) \o Concat(Tail(ss))

SearchReturned == lastCall.op = "search" /\ lastCall.status = "ok"

\* C1: user isolation.  Every stored chunk row carries the user_id of its
\* parent document, and every row a search returns is a stored chunk of the
\* queried user, whose parent document belongs to the queried user.
C1_UserIsolation ==
  /\ \A i \in 1..Len(document_chunks) :
       \E d \in documents : /\ d.id = document_chunks[i].document_id
                            /\ d.user_id = document_chunks[i].user_id
  /\ SearchReturned =>
       \A k \in 1..Len(lastCall.results) :
         /\ \E d \in documents : /\ d.id = lastCall.results[k].document_id
                                  /\ d.user_id = lastCall.user_id
         /\ \E i \in 1..Len(document_chunks) :
              /\ document_chunks[i].document_id = lastCall.results[k].document_id
              /\ document_chunks[i].chunk_index = lastCall.results[k].chunk_index
              /\ document_chunks[i].chunk_text = lastCall.results[k].chunk_text
              /\ document_chunks[i].user_id = lastCall.user_id

\* a search returned chunks while another user holds a chunk of the same text
C1_Witness ==
  /\ SearchReturned
  /\ lastCall.results # <<>>
  /\ \E i \in 1..Len(document_chunks) :
       /\ document_chunks[i].user_id # lastCall.user_id
       /\ document_chunks[i].chunk_text = lastCall.results[1].chunk_text

\* C2: chunking.  When embed_and_store_document returns, the document's rows
\* have chunk_index 0..n-1 in storage order, their texts concatenate to the
\* text, every chunk has at most chunk_size characters and all but the last
\* exactly chunk_size, and the returned count is n; the empty text gives 0
\* and "ABCDEFGHIJ" with chunk_size 3 gives ABC, DEF, GHI, J and 4.
C2_Chunking ==
  \A p \in Callers :
    call[p].pc = "returned" =>
      LET rows == DocRows(call[p].doc_id)
          n == Len(rows)
      IN  /\ \A k \in 1..n : rows[k].chunk_index = k - 1
          /\ Concat([k \in 1..n |-> rows[k].chunk_text]) = call[p].text
          /\ \A k \in 1..n : Len(rows[k].chunk_text) <= call[p].chunk_size
          /\ \A k \in 1..(n - 1) : Len(rows[k].chunk_text) = call[p].chunk_size
          /\ \A k \in 1..n : Len(rows[k].chunk_text) >= 1
          /\ call[p].result.chunks = n
          /\ call[p].result.document_id = call[p].doc_id
          /\ call[p].text = <<>> => n = 0
          /\ (call[p].text = ABCDEFGHIJ /\ call[p].chunk_size = 3) =>
               /\ n = 4
               /\ [k \in 1..n |-> rows[k].chunk_text] =
                    <<SubSeq(ABCDEFGHIJ, 1, 3), SubSeq(ABCDEFGHIJ, 4, 6),
                      SubSeq(ABCDEFGHIJ, 7, 9), <<"J">> >>

\* the worked scenario has been indexed
C2_Witness ==
  \E p \in Callers :
    /\ call[p].pc = "returned"
    /\ call[p].text = ABCDEFGHIJ
    /\ call[p].chunk_size = 3
    /\ call[p].result.chunks = 4

\* C3: all-or-nothing.  In every state a document has none of its chunk rows
\* or all of them: none while its call is in flight or after it failed, all
\* once it returned; a failed call returns no result; and a search never
\* sees part of a document.
C3_AllOrNothing ==
  /\ \A p \in Callers :
       LET stored == Len(DocRows(call[p].doc_id))
       IN  /\ call[p].pc \in {"doc_created", "rows_built"} => stored = 0
           /\ call[p].pc = "raised" =>
                /\ stored = 0
                /\ call[p].result = NoResult
                /\ call[p].error \in {"EmbeddingFailure", "StorageFailure"}
           /\ call[p].pc = "returned" =>
                /\ stored = Len(Chunks(call[p].text, call[p].chunk_size))
                /\ call[p].result.chunks = stored
                /\ call[p].error = None
  /\ SearchReturned =>
       \A d \in documents :
         LET seen == Len(SelectSeq(lastCall.results,
                                   LAMBDA r : r.document_id = d.id))
         IN  seen = 0 \/ seen = Len(DocRows(d.id))

\* the embedder failed for one document, which stays without rows, while
\* another document is fully stored and a search has returned its chunks
C3_Witness ==
  /\ \E p \in Callers :
       /\ call[p].pc = "raised"
       /\ call[p].error = "EmbeddingFailure"
       /\ DocExists(documents, call[p].doc_id)
       /\ call[p].text # <<>>
  /\ \E p \in Callers : call[p].pc = "returned" /\ call[p].result.chunks = 2
  /\ SearchReturned
  /\ Len(lastCall.results) = 2

C5_ContextBlocks ==
  (lastCall.op = "get_context" /\ lastCall.status = "ok") =>
    LET res == lastCall.results
        ctx == lastCall.context
        n == Len(res)
    IN  /\ (ctx = <<>>) <=> (res = <<>>)
        /\ n >= 1 => Len(ctx) = 5 * n + (n - 1)
        /\ \A k \in 1..n :
             LET at == 6 * (k - 1)
             IN  /\ ctx[at + 1] = "[Chunk]"
                 /\ ctx[at + 2] = res[k].chunk_text
                 /\ 10 * ctx[at + 4] - res[k].similarity \in (-5)..5
                 /\ k < n => ctx[at + 6] = Separator
        /\ \A k \in 1..(n - 1) : res[k].similarity >= res[k + 1].similarity

\* a context of two blocks of different texts, the first score not a whole
\* number of thousandths
C5_Witness ==
  /\ lastCall.op = "get_context"
  /\ lastCall.status = "ok"
  /\ Len(lastCall.results) = 2
  /\ lastCall.results[1].chunk_text # lastCall.results[2].chunk_text
  /\ lastCall.results[1].similarity % 10 # 0

UtteranceReplies == {k \in 1..Len(replies) : replies[k].turn >= 1}

Replied(t) == \E k \in UtteranceReplies : replies[k].turn = t

\* C6: session start fails hard on an empty baseline.  A start_session that
\* failed created no AgentSession, registered no handler, spawned no task
\* and issued no reply; a session that was created holds a non-empty
\* baseline, so a fetch that returned the empty context never starts one.
C6_FailsHardOnEmptyBaseline ==
  /\ sess.pc = "failed" =>
       /\ ~sess.created /\ ~sess.handler /\ ~agent.built
       /\ ready = <<>> /\ tasks = <<>> /\ replies = <<>>
  /\ (sess.created \/ sess.handler \/ sess.pc = "starting" \/ SessionRunning
        \/ tasks # <<>> \/ replies # <<>>) =>
       /\ sess.created
       /\ agent.built
       /\ agent.business_context # <<>>

\* start_session failed on an empty baseline although the store holds chunks
\* (of the other user)
C6_Witness ==
  /\ sess.pc = "failed"
  /\ sess.error = "ValueError"
  /\ document_chunks # <<>>

\* C7: the baseline is the context fetched at initialization, unchanged by
\* any turn, and part of the instructions of every turn; a turn whose
\* retrieval returned the empty context still gets its instructions and its
\* reply, from the fallback template.
C7_BaselineFallback ==
  /\ agent.built => (agent.business_context = sess.baseline
                      /\ sess.baseline # <<>>)
  /\ \A k \in UtteranceReplies :
       /\ replies[k].instructions.business = sess.baseline
       /\ replies[k].instructions.said = tasks[replies[k].turn].message
       /\ (replies[k].instructions.template = "fallback")
            <=> (replies[k].instructions.relevant = <<>>)
       /\ replies[k].instructions.template \in {"fallback", "specific"}
  /\ \A t \in 1..Len(tasks) :
       (tasks[t].alternatives /\ tasks[t].step > 0 /\ tasks[t].error = None)
         => Replied(t)

\* a turn whose retrieval was empty was answered from the baseline
C7_Witness ==
  \E k \in UtteranceReplies :
    /\ replies[k].instructions.template = "fallback"
    /\ replies[k].instructions.relevant = <<>>
    /\ replies[k].instructions.business # <<>>
    /\ replies[k].instructions.business = agent.business_context

\* C8: a turn whose retrieval raised is not aborted: its task does not end
\* with the exception, and a reply is issued for it from the baseline.
C8_GracefulDegradation ==
  \A t \in 1..Len(tasks) :
    tasks[t].error # None =>
      /\ tasks[t].pc # "raised"
      /\ \E k \in UtteranceReplies :
           /\ replies[k].turn = t
           /\ replies[k].instructions.business = sess.baseline

\* C9: the tasks retrieve in commit order, and the replies for utterances
\* are issued in commit order: no reply for an earlier utterance is issued
\* after the reply for a later one.
C9_TurnOrder ==
  /\ \A t1, t2 \in 1..Len(tasks) :
       (t1 < t2 /\ tasks[t2].step > 0) =>
         (tasks[t1].step > 0 /\ tasks[t1].step < tasks[t2].step)
  /\ \A i, j \in UtteranceReplies :
       i < j => replies[i].turn < replies[j].turn
  /\ \A i, j \in UtteranceReplies :
       replies[i].turn = replies[j].turn => i = j

\* the second utterance was committed while the first task had not run, and
\* both were answered
C9_Witness ==
  /\ Len(tasks) >= 2
  /\ tasks[2].pending = 1
  /\ Replied(1)
  /\ Replied(2)

\* C10: a task still in flight when the session ends is cancelled or its
\* result discarded: no reply for an utterance is issued after the session
\* has ended.
C10_NoReplyAfterEnd ==
  \A k \in UtteranceReplies : ~replies[k].afterEnd

====
